---- MODULE Spec2Model ----
(***************************************************************************)
(* GameRenderer of snake-3d-rs (src/src/renderer.rs): the surface          *)
(* coordinate mapper (pos_to_vec3), the auto camera (update_camera_target  *)
(* and the interpolation in render), and the particle burst system         *)
(* (spawn_particles and the expiry / instance generation in render).       *)
(*                                                                         *)
(* Numbers.  An f32 is modelled as an extended fixed-point value: a        *)
(* record [k, n] that is finite (n counts units of 1/F32Scale), an         *)
(* infinity (n is its sign) or NaN, with the IEEE-754 rules for the        *)
(* special values.  The f64 render clock is an integer count of            *)
(* 1/F64Scale units; F64Scale is finer than F32Scale, so the `as f32`      *)
(* casts of the code round.                                                *)
(***************************************************************************)
EXTENDS Integers, Sequences, FiniteSets, TLC

VARIABLES camera, particles, grid_size, target_pos, target_up, time,
          particle_instances, last, calls, spawn_log, map_in, map_out

vars == <<camera, particles, grid_size, target_pos, target_up, time,
          particle_instances, last, calls, spawn_log, map_in, map_out>>

\* ------------------------------------------------------------ bounds
\* Largest grid_size the mapper is checked for.
MaxGrid == 10
\* Viewport widths and heights passed to resize are 0..MaxDim.
MaxDim == 2
\* Number of resize / render calls explored by the camera specification.
MaxCamCalls == 3
\* Number of render / spawn_particles calls explored by the particle
\* specification.
MaxCalls == 3

\* ------------------------------------------------------------ numbers
F32Scale == 10 ^ 3
F64Scale == 10 ^ 4

Abs(i) == IF i < 0 THEN -i ELSE i
Sgn(i) == IF i < 0 THEN -1 ELSE 1
Max2(a, b) == IF a >= b THEN a ELSE b

\* a / b rounded to the nearest integer (b # 0).
RoundDiv(a, b) ==
    (IF (a < 0) # (b < 0) THEN -1 ELSE 1) * ((2 * Abs(a) + Abs(b)) \div (2 * Abs(b)))

RECURSIVE ISqrtIter(_, _)
ISqrtIter(n, x) ==
    LET y == (x + n \div x) \div 2 IN IF y >= x THEN x ELSE ISqrtIter(n, y)

\* The square root of n rounded to the nearest integer.
ISqrt(n) ==
    IF n = 0 THEN 0
    ELSE LET r == ISqrtIter(n, n) IN IF n - r * r > r THEN r + 1 ELSE r

Fin(n) == [k |-> "fin", n |-> n]
NaN == [k |-> "nan", n |-> 0]
IsFin(a) == a.k = "fin"
IsNaN(a) == a.k = "nan"
Zero == Fin(0)
One == Fin(F32Scale)

FNeg(a) == IF IsNaN(a) THEN NaN ELSE [k |-> a.k, n |-> -a.n]

FAdd(a, b) ==
    IF IsNaN(a) \/ IsNaN(b) THEN NaN
    ELSE IF IsFin(a) /\ IsFin(b) THEN Fin(a.n + b.n)
    ELSE IF IsFin(a) THEN b
    ELSE IF IsFin(b) THEN a
    ELSE IF a.n = b.n THEN a ELSE NaN

FSub(a, b) == FAdd(a, FNeg(b))

FMul(a, b) ==
    IF IsNaN(a) \/ IsNaN(b) THEN NaN
    ELSE IF IsFin(a) /\ IsFin(b) THEN Fin(RoundDiv(a.n * b.n, F32Scale))
    ELSE IF a.n = 0 \/ b.n = 0 THEN NaN
    ELSE [k |-> "inf", n |-> Sgn(a.n) * Sgn(b.n)]

FDiv(a, b) ==
    IF IsNaN(a) \/ IsNaN(b) THEN NaN
    ELSE IF IsFin(a) /\ IsFin(b) THEN
        IF b.n # 0 THEN Fin(RoundDiv(a.n * F32Scale, b.n))
        ELSE IF a.n = 0 THEN NaN
        ELSE [k |-> "inf", n |-> Sgn(a.n)]
    ELSE IF IsFin(b) THEN [k |-> "inf", n |-> Sgn(a.n) * Sgn(b.n)]
    ELSE IF IsFin(a) THEN Zero
    ELSE NaN

\* a < b of IEEE-754: false as soon as one side is NaN.
FLt(a, b) ==
    IF IsNaN(a) \/ IsNaN(b) THEN FALSE
    ELSE IF IsFin(a) /\ IsFin(b) THEN a.n < b.n
    ELSE IF IsFin(a) THEN b.n > 0
    ELSE IF IsFin(b) THEN a.n < 0
    ELSE a.n < b.n

\* f32::min: the other operand when one is NaN.
FMin(a, b) ==
    IF IsNaN(a) THEN b ELSE IF IsNaN(b) THEN a ELSE IF FLt(b, a) THEN b ELSE a

\* `x as f32` of an integer (u32, i32, u8).
IntToF32(i) == Fin(i * F32Scale)

\* `x as f32` of a finite f64 given in 1/F64Scale units: rounds to nearest.
F64ToF32(x) == Fin(RoundDiv(x * F32Scale, F64Scale))

\* ------------------------------------------------------------ vectors
vec3(x, y, z) == [x |-> x, y |-> y, z |-> z]
VecOf(i, j, l) == vec3(Fin(i), Fin(j), Fin(l))
VAdd(a, b) == vec3(FAdd(a.x, b.x), FAdd(a.y, b.y), FAdd(a.z, b.z))
VSub(a, b) == vec3(FSub(a.x, b.x), FSub(a.y, b.y), FSub(a.z, b.z))
VScale(a, s) == vec3(FMul(a.x, s), FMul(a.y, s), FMul(a.z, s))
VFinite(a) == IsFin(a.x) /\ IsFin(a.y) /\ IsFin(a.z)
VHasNaN(a) == IsNaN(a.x) \/ IsNaN(a.y) \/ IsNaN(a.z)
VNaN == vec3(NaN, NaN, NaN)

\* cgmath's lerp: self + (other - self) * amount.
lerp(a, b, amount) == VAdd(a, VScale(VSub(b, a), amount))

\* The power of ten that brings a largest component m into 1000..9999: a
\* float keeps its relative precision whatever the magnitude, which the
\* fixed-point units alone would lose for a short vector.
PreScale(m) == IF m < 10 THEN 1000 ELSE IF m < 100 THEN 100 ELSE IF m < 1000 THEN 10 ELSE 1

\* cgmath's normalize: self * (1 / self.magnitude()).  The zero vector has
\* magnitude 0, 1/0 is +inf and 0 * inf is NaN; a NaN component makes the
\* magnitude, and so every component, NaN; an infinite component makes
\* the factor 0, and inf * 0 is NaN.
normalize(v) ==
    IF VHasNaN(v) THEN VNaN
    ELSE IF ~VFinite(v) THEN
        vec3(IF IsFin(v.x) THEN Zero ELSE NaN,
             IF IsFin(v.y) THEN Zero ELSE NaN,
             IF IsFin(v.z) THEN Zero ELSE NaN)
    ELSE LET m == Max2(Abs(v.x.n), Max2(Abs(v.y.n), Abs(v.z.n))) IN
         IF m = 0 THEN VNaN
         ELSE LET s == PreScale(m)
                  X == v.x.n * s
                  Y == v.y.n * s
                  Z == v.z.n * s
                  mag == ISqrt(X * X + Y * Y + Z * Z)
              IN VecOf(RoundDiv(X * F32Scale, mag),
                       RoundDiv(Y * F32Scale, mag),
                       RoundDiv(Z * F32Scale, mag))

\* ------------------------------------------------------------ game types
Faces == {"Front", "Back", "Left", "Right", "Top", "Bottom"}
Position(face, u, v) == [face |-> face, u |-> u, v |-> v]
Cells(g) == {Position(f, u, v) : f \in Faces, u \in 0 .. g - 1, v \in 0 .. g - 1}

\* ------------------------------------------------------------ constants
\* let offset = 0.05
offset == Fin(F32Scale \div 20)
\* let base_dist = 4.5
base_dist == Fin((9 * F32Scale) \div 2)
\* let speed = 5.0
speed == Fin(5 * F32Scale)
\* for _ in 0..10
ParticleCount == 10
\* the particle lifetime of `self.time - p.spawn_time < 1.0`, in clock units
Lifetime == F64Scale

\* let cell_size = 2.0 / self.grid_size as f32
CellSize(g) == FDiv(Fin(2 * F32Scale), IntToF32(g))

\* ------------------------------------------------------------ pos_to_vec3
Surface(off) == FAdd(One, off)

\* -1.0 + (u * cell_size) + half_size
Local(i, cell_size) ==
    FAdd(FAdd(FNeg(One), FMul(IntToF32(i), cell_size)), FDiv(cell_size, Fin(2 * F32Scale)))

\* The Top row of the table, with the sign of v_local dropped.
EmbedTopUnflipped(u_local, v_local, surface) == vec3(u_local, surface, v_local)

EmbedTop(u_local, v_local, surface) == vec3(u_local, surface, FNeg(v_local))

\* The Back row of the table, placed on the +z plane.
EmbedBackFront(u_local, v_local, surface) == vec3(FNeg(u_local), v_local, surface)

EmbedBack(u_local, v_local, surface) == vec3(FNeg(u_local), v_local, FNeg(surface))

pos_to_vec3(pos, cell_size, off) ==
    LET u_local == Local(pos.u, cell_size)
        v_local == Local(pos.v, cell_size)
        surface == Surface(off)
    IN CASE pos.face = "Front" -> vec3(u_local, v_local, surface)
         [] pos.face = "Back" -> EmbedBack(u_local, v_local, surface)
         [] pos.face = "Right" -> vec3(surface, v_local, FNeg(u_local))
         [] pos.face = "Left" -> vec3(FNeg(surface), v_local, u_local)
         [] pos.face = "Top" -> EmbedTop(u_local, v_local, surface)
         [] pos.face = "Bottom" -> vec3(u_local, FNeg(surface), v_local)

\* ------------------------------------------------------------ camera target
\* The (pos, up) pair update_camera_target stores in target_pos, target_up.
update_camera_target(face, distance) ==
    CASE face = "Front" -> <<vec3(Zero, Zero, distance), VecOf(0, F32Scale, 0)>>
      [] face = "Back" -> <<vec3(Zero, Zero, FNeg(distance)), VecOf(0, F32Scale, 0)>>
      [] face = "Left" -> <<vec3(FNeg(distance), Zero, Zero), VecOf(0, F32Scale, 0)>>
      [] face = "Right" -> <<vec3(distance, Zero, Zero), VecOf(0, F32Scale, 0)>>
      [] face = "Top" -> <<vec3(Zero, distance, Zero), VecOf(0, 0, -F32Scale)>>
      [] face = "Bottom" -> <<vec3(Zero, FNeg(distance), Zero), VecOf(0, 0, F32Scale)>>

\* ------------------------------------------------------------ particles
\* Srgba::new_opaque(r, g, b)
Srgba(r, g, b) == <<r, g, b, 255>>

\* The food branch taking the point light's colour of render instead.
ParticleColorLight(is_prize) == IF is_prize THEN Srgba(255, 215, 0) ELSE Srgba(255, 50, 50)

\* let color = if is_prize { .. } else { .. }
ParticleColor(is_prize) == IF is_prize THEN Srgba(255, 215, 0) ELSE Srgba(200, 50, 50)

\* The random source as spawn_particles sees it.  rng.mode says which of the
\* ten getrandom calls of a burst fail ("ok": none, "err": all, "flaky":
\* the odd ones); a call that succeeds fills the buffer with the next
\* triple of the stream rng.seed selects, a call that fails leaves the
\* buffer as `[0u8; 3]` initialised it.
ByteSamples == <<127, 128, 0, 255>>
TripleAt(n) ==
    LET m == (21 * n) % 64
    IN <<ByteSamples[(m % 4) + 1], ByteSamples[((m \div 4) % 4) + 1], ByteSamples[(m \div 16) + 1]>>
Fails(rng, i) == rng.mode = "err" \/ (rng.mode = "flaky" /\ i % 2 = 1)
getrandom(rng, i) ==
    IF Fails(rng, i) THEN [ok |-> FALSE, buf |-> <<0, 0, 0>>]
    ELSE [ok |-> TRUE, buf |-> TripleAt(ParticleCount * rng.seed + i)]

\* The byte scaled by 256 instead of 255.
RandToCoord256(b) == FSub(FDiv(IntToF32(b), Fin(256 * F32Scale)), Fin(F32Scale \div 2))

\* (rng_buf[k] as f32 / 255.0) - 0.5
RandToCoord(b) == FSub(FDiv(IntToF32(b), Fin(255 * F32Scale)), Fin(F32Scale \div 2))

\* vec3(rx, ry, rz).normalize() * 1.0
ParticleVelocity(buf) ==
    VScale(normalize(vec3(RandToCoord(buf[1]), RandToCoord(buf[2]), RandToCoord(buf[3]))), One)

\* The retain test with <= in place of <.
AliveInclusive(p, now) == now - p.spawn_time <= Lifetime

\* self.time - p.spawn_time < 1.0
Alive(p, now) == now - p.spawn_time < Lifetime

\* self.particles.retain(..)
Retain(ps, now) == SelectSeq(ps, LAMBDA p : Alive(p, now))

\* The instances generated from the particle set as it was before retain.
DrawnUnfiltered(ps, now) == ps

\* The particles the `for p in &self.particles` loop of render visits: the
\* set as retain left it.
Drawn(ps, now) == Retain(ps, now)

\* (1.0 - age) * 0.05, kept as the exact product, in units of
\* 1/F32Scale^2: the product of two floats of this size does not
\* underflow to zero.
ParticleScale(age) == (One.n - age.n) * offset.n

\* One iteration of the loop: Mat4::from_translation(pos) *
\* Mat4::from_scale(scale), as the pair that determines the matrix.
ParticleTransform(p, now) ==
    LET age == F64ToF32(now - p.spawn_time)
    IN [translation |-> VAdd(p.start_pos, VScale(p.velocity, age)),
        scale |-> ParticleScale(age)]

\* let particle_instances = Instances { transformations, colors, .. }
Instances(ps, now) ==
    [transformations |-> [i \in 1 .. Len(ps) |-> ParticleTransform(ps[i], now)],
     colors |-> [i \in 1 .. Len(ps) |-> ps[i].color]]

\* ------------------------------------------------------------ state
NoInstances == [transformations |-> <<>>, colors |-> <<>>]
Idle == [done |-> FALSE]

\* GameRenderer::new(context, g)
New(g) ==
    /\ camera = [viewport |-> [width |-> 1, height |-> 1],
                 position |-> VecOf(4 * F32Scale, 4 * F32Scale, 4 * F32Scale),
                 up |-> VecOf(0, F32Scale, 0)]
    /\ particles = <<>>
    /\ grid_size = g
    /\ target_pos = VecOf(0, 0, 4 * F32Scale)
    /\ target_up = VecOf(0, F32Scale, 0)
    /\ time = 0
    /\ particle_instances = NoInstances
    /\ last = [op |-> "new"]
    /\ calls = 0
    /\ spawn_log = <<>>

Init ==
    /\ New(MaxGrid)
    /\ map_in = Idle
    /\ map_out = Idle

\* ------------------------------------------------------------ operations
resize(width, height) ==
    /\ camera' = [camera EXCEPT !.viewport = [width |-> width, height |-> height]]
    /\ last' = [op |-> "resize", width |-> width, height |-> height]
    /\ calls' = calls + 1
    /\ UNCHANGED <<particles, grid_size, target_pos, target_up, time,
                   particle_instances, spawn_log, map_in, map_out>>

\* let aspect = viewport.width as f32 / viewport.height as f32
Aspect(viewport) == FDiv(IntToF32(viewport.width), IntToF32(viewport.height))

\* let dist = if aspect < 1.0 { base_dist / aspect } else { base_dist }
Dist(aspect) == IF FLt(aspect, One) THEN FDiv(base_dist, aspect) ELSE base_dist

\* let t = (speed * dt as f32).min(1.0)
LerpFactor(dt) == FMin(FMul(speed, F64ToF32(dt)), One)

\* render(game, target, dt), with face = game.snake.head().face.  The snake,
\* food and light set-up of the frame read the clock and the game only and
\* write nothing that is read back; they are left out.
render(face, dt) ==
    LET now == time + dt
        dist == Dist(Aspect(camera.viewport))
        tgt == update_camera_target(face, dist)
        t == LerpFactor(dt)
        new_pos == lerp(camera.position, tgt[1], t)
        new_up == normalize(lerp(camera.up, tgt[2], t))
        kept == Retain(particles, now)
    IN /\ time' = now
       /\ target_pos' = tgt[1]
       /\ target_up' = tgt[2]
       /\ camera' = [viewport |-> camera.viewport, position |-> new_pos, up |-> new_up]
       /\ particles' = kept
       /\ particle_instances' = Instances(Drawn(particles, now), now)
       /\ last' = [op |-> "render", face |-> face, dt |-> dt]
       /\ calls' = calls + 1
       /\ UNCHANGED <<grid_size, spawn_log, map_in, map_out>>

spawn_particles(pos, is_prize, rng) ==
    LET center == pos_to_vec3(pos, CellSize(grid_size), offset)
        color == ParticleColor(is_prize)
        burst == [i \in 1 .. ParticleCount |->
                    [start_pos |-> center,
                     velocity |-> ParticleVelocity(getrandom(rng, i).buf),
                     spawn_time |-> time,
                     color |-> color]]
    IN /\ particles' = particles \o burst
       /\ spawn_log' = Append(spawn_log, [time |-> time, pos |-> pos, is_prize |-> is_prize])
       /\ last' = [op |-> "spawn", pos |-> pos, is_prize |-> is_prize, rng |-> rng]
       /\ calls' = calls + 1
       /\ UNCHANGED <<camera, grid_size, target_pos, target_up, time,
                      particle_instances, map_in, map_out>>

\* ------------------------------------------------------------ inputs
\* Frame times, in clock units: 0, 0.05, 0.1, 0.2 and 1.0.
CamDts == {0, F64Scale \div 20, F64Scale \div 10, F64Scale \div 5, F64Scale}

\* Frame times for the particle clock: 0, 0.49, 0.5, 0.51 and the largest
\* clock value below 1.0.
PartDts == {0, (49 * F64Scale) \div 100, F64Scale \div 2, (51 * F64Scale) \div 100, F64Scale - 1}

\* "Item eaten" notifications.
EatEvents ==
    {[pos |-> Position("Top", 3, 4), is_prize |-> FALSE],
     [pos |-> Position("Bottom", 0, grid_size - 1), is_prize |-> TRUE]}

RngInputs ==
    {[mode |-> "ok", seed |-> 0], [mode |-> "err", seed |-> 0], [mode |-> "flaky", seed |-> 1]}

\* ------------------------------------------------------------ specifications
\* The camera: resize and render, the head on any face.
Resized == calls < MaxCamCalls /\ \E w \in 0 .. MaxDim, h \in 0 .. MaxDim : resize(w, h)
CameraFrame == calls < MaxCamCalls /\ \E f \in Faces, dt \in CamDts : render(f, dt)
CamNext == Resized \/ CameraFrame

SpecCamera == Init /\ [][CamNext]_vars

\* The particle system: eat events and frames, the head staying on Front.
Frame == calls < MaxCalls /\ \E dt \in PartDts : render("Front", dt)
ItemEaten ==
    /\ calls < MaxCalls
    /\ \E ev \in EatEvents, rng \in RngInputs : spawn_particles(ev.pos, ev.is_prize, rng)
Next == Frame \/ ItemEaten

Spec == Init /\ [][Next]_vars

\* The mapper and the target table as functions: every cell of every grid
\* size up to MaxGrid, and two camera distances.
MapDists == {base_dist, FMul(base_dist, Fin(2 * F32Scale))}

InitMapper ==
    /\ \E g \in 1 .. MaxGrid : New(g)
    /\ map_in \in {[pos |-> p, distance |-> d] : p \in Cells(grid_size), d \in MapDists}
    /\ map_out = Idle

map_cell ==
    /\ ~map_out.done
    /\ LET cs == CellSize(grid_size)
           p == map_in.pos
           tgt == update_camera_target(p.face, map_in.distance)
       IN /\ map_out' = [done |-> TRUE,
                         cell_size |-> cs,
                         here |-> pos_to_vec3(p, cs, offset),
                         above |-> IF p.v + 1 < grid_size
                                    THEN pos_to_vec3(Position(p.face, p.u, p.v + 1), cs, offset)
                                    ELSE pos_to_vec3(p, cs, offset)]
          /\ target_pos' = tgt[1]
          /\ target_up' = tgt[2]
    /\ UNCHANGED <<camera, particles, grid_size, time, particle_instances,
                   last, calls, spawn_log, map_in>>

SpecMapper == InitMapper /\ [][map_cell]_vars

\* ------------------------------------------------------------ properties
SqLen(v) == v.x.n * v.x.n + v.y.n * v.y.n + v.z.n * v.z.n

\* Unit length within a tolerance of 1% of the squared length.
UnitLength(v) ==
    VFinite(v) /\ Abs(SqLen(v) - F32Scale * F32Scale) <= (F32Scale * F32Scale) \div 100

Rendered == last.op = "render"
Spawned == last.op = "spawn"
\* A step that is a call of render / of spawn_particles.
RenderStep == calls' = calls + 1 /\ last'.op = "render"
SpawnStep == calls' = calls + 1 /\ last'.op = "spawn"

\* C1: after every render call, whatever the head faces and frame times so
\* far, the camera up vector has unit length (the interpolated vector was
\* not the zero vector before normalize).
C1_UpUnitLength == UnitLength(camera.up)

\* C5: a render call with dt >= 0.2 leaves the camera position and up
\* vector exactly at the target position and target up of the head's face;
\* a render call with dt = 0 leaves position and up as they were.
C5_SnapOrHold ==
    [][RenderStep =>
        /\ last'.dt >= F64Scale \div 5 =>
              camera'.position = target_pos' /\ camera'.up = target_up'
        /\ last'.dt = 0 =>
              camera'.position = camera.position /\ camera'.up = camera.up]_vars

Between(c, a, b) ==
    /\ IsFin(a) /\ IsFin(b) /\ IsFin(c)
    /\ (a.n <= c.n /\ c.n <= b.n) \/ (b.n <= c.n /\ c.n <= a.n)

\* c = a + t * (b - a) up to the rounding of the last unit.
IsLerp(c, a, b, t) ==
    /\ IsFin(a) /\ IsFin(b) /\ IsFin(c) /\ IsFin(t)
    /\ 2 * Abs(F32Scale * (c.n - a.n) - t.n * (b.n - a.n)) <= F32Scale

\* C6: in a render call with 0 < 5*dt < 1 and the camera not yet at the
\* target, the new position is current + t*(target - current) with
\* t = 5*dt: strictly between the previous position and the target, neither
\* of them.
C6_PartialStep ==
    [][(/\ RenderStep
        /\ 0 < last'.dt /\ last'.dt < F64Scale \div 5
        /\ camera.position # target_pos') =>
        LET t == FMul(speed, F64ToF32(last'.dt))
            old == camera.position
            new == camera'.position
            tgt == target_pos'
        IN /\ IsLerp(new.x, old.x, tgt.x, t)
           /\ IsLerp(new.y, old.y, tgt.y, t)
           /\ IsLerp(new.z, old.z, tgt.z, t)
           /\ Between(new.x, old.x, tgt.x)
           /\ Between(new.y, old.y, tgt.y)
           /\ Between(new.z, old.z, tgt.z)
           /\ new # old /\ new # tgt]_vars

\* The distance render passed to update_camera_target: the target position
\* has it, signed, on one axis and zero on the two others.
TargetDistance ==
    IF target_pos.x # Zero THEN target_pos.x
    ELSE IF target_pos.y # Zero THEN target_pos.y
    ELSE target_pos.z

\* C9: whatever viewport resize set, zero width or height included, the
\* camera distance render derives is finite: 4.5 when width/height >= 1 and
\* 4.5/aspect when it is below 1 (the aspect being kept positive).
C9_FiniteDistance ==
    Rendered =>
        LET vp == camera.viewport
            d == TargetDistance
        IN /\ IsFin(d) /\ d.n # 0
           /\ (vp.height > 0 /\ vp.width >= vp.height) => Abs(d.n) = base_dist.n
           /\ (vp.width > 0 /\ vp.width < vp.height) =>
                 Abs(d.n) = FDiv(base_dist, Aspect(vp)).n

\* ---- the mapper
Coord(v, axis) == CASE axis = "x" -> v.x [] axis = "y" -> v.y [] axis = "z" -> v.z
Axes == {"x", "y", "z"}
\* The outward axis and sign of each face.
OutwardAxis(face) ==
    CASE face \in {"Front", "Back"} -> "z"
      [] face \in {"Left", "Right"} -> "x"
      [] face \in {"Top", "Bottom"} -> "y"
OutwardSign(face) == IF face \in {"Front", "Right", "Top"} THEN 1 ELSE -1
\* The camera's up vector of each face.
UpOf(face) ==
    CASE face = "Top" -> VecOf(0, 0, -F32Scale)
      [] face = "Bottom" -> VecOf(0, 0, F32Scale)
      [] OTHER -> VecOf(0, F32Scale, 0)

\* C7: one step of v on face F moves the mapped point by cellSize times the
\* up vector update_camera_target gives F (Front, Back, Left, Right:
\* (0,1,0); Top: (0,0,-1); Bottom: (0,0,1)), and the target position of F
\* lies on the axis the mapper puts F's surface on, on the same side, at
\* distance d.
C7_UpTableMatches ==
    map_out.done =>
        LET p == map_in.pos
            d == map_in.distance
        IN /\ target_up = UpOf(p.face)
           /\ p.v + 1 < grid_size =>
                 VSub(map_out.above, map_out.here) = VScale(target_up, map_out.cell_size)
           /\ \A a \in Axes :
                 IF Abs(Coord(map_out.here, a).n) = Surface(offset).n
                 THEN Coord(target_pos, a) = Fin(Sgn(Coord(map_out.here, a).n) * d.n)
                 ELSE Coord(target_pos, a) = Zero

C7_Witness ==
    /\ map_out.done
    /\ map_in.pos.face = "Top"
    /\ map_in.pos.v + 1 < grid_size
    /\ map_out.above # map_out.here

\* C8: for every grid size and cell, the mapped point has exactly
\* +(1+offset) (Front, Right, Top) or -(1+offset) (Back, Left, Bottom) on
\* the face's outward axis and its two other coordinates strictly inside
\* (-1, 1).
C8_OnSurface ==
    map_out.done =>
        LET f == map_in.pos.face IN
        \A a \in Axes :
            LET c == Coord(map_out.here, a) IN
            /\ IsFin(c)
            /\ IF a = OutwardAxis(f)
               THEN c.n = OutwardSign(f) * (F32Scale + F32Scale \div 20)
               ELSE -F32Scale < c.n /\ c.n < F32Scale

C8_Witness ==
    /\ map_out.done
    /\ map_in.pos.face = "Back"
    /\ grid_size > 1
    /\ map_in.pos.u = grid_size - 1
    /\ map_in.pos.v = 0

\* ---- the particles
CountAt(T) == Cardinality({i \in 1 .. Len(particles) : particles[i].spawn_time = T})
LogAt(T) == Cardinality({j \in 1 .. Len(spawn_log) : spawn_log[j].time = T})

C3_BurstAppended ==
    [][SpawnStep =>
        /\ Len(particles') = Len(particles) + 10
        /\ SubSeq(particles', 1, Len(particles)) = particles
        /\ \A i \in Len(particles) + 1 .. Len(particles') :
              /\ particles'[i].start_pos =
                     pos_to_vec3(last'.pos, FDiv(Fin(2 * F32Scale), IntToF32(grid_size)),
                                 Fin(F32Scale \div 20))
              /\ particles'[i].spawn_time = time
              /\ particles'[i].color =
                     IF last'.is_prize THEN <<255, 215, 0, 255>> ELSE <<200, 50, 50, 255>>]_vars

C3_Witness ==
    /\ Spawned
    /\ Len(particles) = 2 * ParticleCount
    /\ ~last.is_prize
    /\ particles[1].color # particles[Len(particles)].color

\* The direction (-0.5, -0.5, -0.5) normalized: -1/sqrt(3) on each axis.
FallbackVelocity == VecOf(-577, -577, -577)

\* C4: spawn_particles creates its 10 particles also when getrandom fails;
\* each particle of a failed call gets the same fixed velocity, of unit
\* length; and whatever the random bytes, no coordinate before normalize is
\* zero and the velocity has unit length.
C4_VelocityUnit ==
    /\ \A b \in 0 .. 255 : IsFin(RandToCoord(b)) /\ RandToCoord(b) # Zero
    /\ \A i \in 1 .. Len(particles) : UnitLength(particles[i].velocity)
    /\ Spawned =>
          /\ Len(particles) >= 10
          /\ \A i \in 1 .. 10 :
                Fails(last.rng, i) =>
                    particles[Len(particles) - 10 + i].velocity = FallbackVelocity

C4_Witness ==
    /\ Spawned
    /\ last.rng.mode = "flaky"
    /\ particles[Len(particles) - 1].velocity = FallbackVelocity
    /\ particles[Len(particles)].velocity # FallbackVelocity

\* What the frame drew for particle i of the active set.
DrawnAs(i) ==
    LET p == particles[i]
        tr == particle_instances.transformations[i]
        age == F64ToF32(time - p.spawn_time)
    IN /\ particle_instances.colors[i] = p.color
       /\ tr.translation = VAdd(p.start_pos, VScale(p.velocity, age))
       /\ tr.scale * 20 = (F32Scale - age.n) * F32Scale
       /\ 0 <= time - p.spawn_time /\ time - p.spawn_time < F64Scale

OneInstancePerParticle ==
    /\ Len(particle_instances.transformations) = Len(particles)
    /\ Len(particle_instances.colors) = Len(particles)

\* C10 as stated: the instance buffer a frame submits has one transform and
\* one colour per live particle, in order, each of age in [0, 1.0) and of
\* scale (1 - age)*0.05 strictly above 0 and at most 0.05.
C10_Original ==
    Rendered =>
        /\ OneInstancePerParticle
        /\ \A i \in 1 .. Len(particles) :
              /\ DrawnAs(i)
              /\ 0 < particle_instances.transformations[i].scale
              /\ particle_instances.transformations[i].scale * 20 <= F32Scale * F32Scale

\* C10 as amended: the same, with the scale at least 0: the age is rounded
\* to single precision before the scale is computed, and an age just below
\* 1.0 rounds to 1.0.
C10_Amended ==
    Rendered =>
        /\ OneInstancePerParticle
        /\ \A i \in 1 .. Len(particles) :
              /\ DrawnAs(i)
              /\ 0 <= particle_instances.transformations[i].scale
              /\ particle_instances.transformations[i].scale * 20 <= F32Scale * F32Scale

C10_Witness ==
    /\ Rendered
    /\ Len(particles) = ParticleCount
    /\ particle_instances.transformations[1].scale = 0
    /\ time > particles[1].spawn_time

====
